---- MODULE Spec2Model ----
(***************************************************************************)
(* Model of the two sequence-to-sequence architectures of the repository:  *)
(*   01_Seq2Seq/model.py           EncoderRNN, DecoderRNN, Seq2Seq         *)
(*   02_Seq2SeqAttention/model.py  EncoderRNN, DecoderAttentionRNN,        *)
(*                                 Seq2SeqAttention, Attention             *)
(* Three specifications are given, one per entry point:                    *)
(*   SpecDrv   the decode loops Seq2Seq.forward / Seq2SeqAttention.forward *)
(*   SpecAttn  Attention.__init__ followed by Attention.forward            *)
(*   SpecEnc   EncoderRNN.forward of both architectures                    *)
(* Tensors are functions over 0-based index ranges, as in Python.          *)
(***************************************************************************)
EXTENDS Integers, Sequences, FiniteSets, TLC

(***************************************************************************)
(* Bounds of the model.                                                    *)
(***************************************************************************)
MaxBatch == 2      \* batch_size ranges over 1..MaxBatch
MaxLen == 3        \* max_len (target time steps) ranges over 1..MaxLen
MaxVocab == 2      \* decoder.out_dim ranges over 2..MaxVocab
RandRes == 2       \* random.random() is drawn from {0/RandRes .. (RandRes-1)/RandRes}
MaxSeed == 1       \* the learned decoder parameters range over 0..MaxSeed
HidMod == 3        \* number of abstract values of one recurrent state

VARIABLES
  \* ---- decode loop (Seq2Seq.forward, Seq2SeqAttention.forward) ----
  drv_arch,             \* "seq2seq" | "attention": which driver runs
  out_dim,              \* self.decoder.out_dim
  teacher_forcing_rate, \* numerator of the rate over RandRes (0 = 0.0, RandRes = 1.0)
  tar_input,            \* trg_input / tar_input: batch x max_len token ids
  dec_w,                \* the decoder's learned parameters (a seed)
  t,                    \* loop variable of `for t in range(1, max_len)`
  input_,               \* input_: the token fed to the next decoder step
  hidden,               \* hidden/cell carried from step to step
  outputs,              \* outputs: batch x max_len x out_dim
  drv_pc,               \* "loop" | "done"
  log,                  \* history: one record per decoder invocation
  alt_input,            \* the same loop run on AltTarget(tar_input), in lockstep
  alt_hidden,
  alt_outputs,
  \* ---- Attention.__init__ / Attention.forward ----
  attn_pc,              \* "new" | "constructed" | "ctor_raised" | "forwarded" | "call_raised"
  method,               \* self.method
  rnn_dim,              \* rnn_dim
  self_nn,              \* self.nn: a Linear layer, or None
  self_v,               \* self.v: a Linear layer, or None
  src_inputs,           \* forward's src_inputs: batch x seq_len x rnn_dim
  src_length,           \* the true length of each source row (the rest is padding)
  dec_output,           \* forward's tar_input: batch x 1 x rnn_dim
  dispatched,           \* the scoring sub-algorithms forward has called
  attention_value,      \* attention_value, in thousandths
  attention_distribution, \* the returned weights, in millionths
  \* ---- EncoderRNN.forward (both architectures) ----
  enc_pc,               \* "start" | "embedded" | "packed" | "rnn_done" | "returned" | "raised"
  enc_arch,             \* "seq2seq" (unidirectional) | "attention" (bidirectional)
  n_layer,              \* n_layer
  enc_dim,              \* self.rnn_dim
  enc_w,                \* the encoder's learned parameters (a seed)
  length,               \* length: one true length per batch row
  enc_rnn,              \* what self.rnn returned: [outputs, hidden, cell], or None
  enc_ret               \* what forward returned, or None

drv_vars == <<drv_arch, out_dim, teacher_forcing_rate, tar_input, dec_w, t, input_,
              hidden, outputs, drv_pc, log, alt_input, alt_hidden, alt_outputs>>

attn_vars == <<attn_pc, method, rnn_dim, self_nn, self_v, src_inputs, src_length, dec_output,
               dispatched, attention_value, attention_distribution>>

enc_vars == <<enc_pc, enc_arch, n_layer, enc_dim, enc_w, length, enc_rnn, enc_ret>>

vars == <<drv_vars, attn_vars, enc_vars>>

\* Python's None, for a variable that holds a tensor or a layer
None == <<>>
IsNone(x) == DOMAIN x = {}


(***************************************************************************)
(* Shapes.                                                                 *)
(***************************************************************************)
Range(n) == 0..(n - 1)

batch_size == Cardinality(DOMAIN tar_input)     \* trg_input.shape[0]
max_len == Cardinality(DOMAIN tar_input[0])     \* trg_input.shape[1]
Batch == Range(batch_size)
Vocab == Range(out_dim)

\* torch.zeros(batch_size, max_len, out_dim)
Zeros(b, l, v) == [i \in Range(b) |-> [j \in Range(l) |-> [k \in Range(v) |-> 0]]]

\* x[:, j] of a batch x time tensor
Column(x, j) == [b \in DOMAIN x |-> x[b][j]]

(***************************************************************************)
(* The decoder step, abstracted: a deterministic function of the learned   *)
(* parameters, the token fed and the previous recurrent state, producing   *)
(* one logit per vocabulary entry and the next recurrent state.            *)
(***************************************************************************)
RnnCell(w, tok, h) == (2 * h + tok + w + 1) % HidMod

OutLinear(w, h, v) == (((h + 1) * (v + w + 1) + ((h * v) \div 2)) % 5) - 2

DecoderStep(w, inp, hid, n) ==
  LET new == [b \in DOMAIN inp |-> RnnCell(w, inp[b], hid[b])]
  IN  [predication |-> [b \in DOMAIN inp |-> [v \in Range(n) |-> OutLinear(w, new[b], v)]],
       hidden |-> new]

\* the initial recurrent state handed over by the encoder
EncoderState(w, b) == [i \in Range(b) |-> (w + i) % HidMod]

\* predication.max(dim=1): the index of the first maximal entry of a row
Argmax(row) ==
  CHOOSE i \in DOMAIN row :
    /\ \A j \in DOMAIN row : row[j] <= row[i]
    /\ \A j \in DOMAIN row : j < i => row[j] < row[i]

(***************************************************************************)
(* The decode loop.                                                        *)
(***************************************************************************)
\* for t in range(1, max_len)
LoopContinues_short(step, len) == step < len - 1
LoopContinues(step, len) == step < len

\* outputs[:, t] = predication
WriteIndex_prev(step) == step - 1
WriteIndex(step) == step

\* random.random() < teacher_forcing_rate, both over RandRes
TeacherForced_le(draw, rate) == draw <= rate
TeacherForced_gt(draw, rate) == draw > rate
TeacherForced(draw, rate) == draw < rate

\* Seq2Seq.forward: input_ = indices
PlainNextInput_teacher(tar_col, indices) == tar_col
PlainNextInput(tar_col, indices) == indices

\* Seq2SeqAttention.forward:
\* input_ = (tar_input[:, t] if random.random() < teacher_forcing_rate else indices)
AttnNextInput(tar_col, indices, draw, rate) ==
  IF TeacherForced(draw, rate) THEN tar_col ELSE indices

Draws == Range(RandRes)
Rates == 0..RandRes

\* a second target batch that agrees with x on column 0 and differs everywhere else
AltTarget(x, n) ==
  [b \in DOMAIN x |-> [j \in DOMAIN x[b] |-> IF j = 0 THEN x[b][j] ELSE (x[b][j] + 1) % n]]

\* target rows: the first row is free, row b is the first row shifted by b
TargetBatches(b, l, n) ==
  { [i \in Range(b) |-> [j \in Range(l) |-> (row[j] + i) % n]] : row \in [Range(l) -> Range(n)] }

\* the variables of the entry points that are not running
AttnIdle ==
  /\ attn_pc = "idle"
  /\ method = "" /\ rnn_dim = 0 /\ self_nn = None /\ self_v = None
  /\ src_inputs = None /\ src_length = None /\ dec_output = None
  /\ dispatched = <<>> /\ attention_value = None /\ attention_distribution = None

EncIdle ==
  /\ enc_pc = "idle" /\ enc_arch = "idle"
  /\ n_layer = 0 /\ enc_dim = 0 /\ enc_w = 0
  /\ length = None /\ enc_rnn = None /\ enc_ret = None

DrvIdle ==
  /\ drv_arch = "idle" /\ drv_pc = "idle"
  /\ out_dim = 0 /\ teacher_forcing_rate = 0 /\ tar_input = None /\ dec_w = 0
  /\ t = 0 /\ input_ = None /\ hidden = None /\ outputs = None /\ log = <<>>
  /\ alt_input = None /\ alt_hidden = None /\ alt_outputs = None

InitDrv ==
  /\ drv_arch \in {"seq2seq", "attention"}
  /\ out_dim \in 2..MaxVocab
  /\ teacher_forcing_rate \in (IF drv_arch = "attention" THEN Rates ELSE {0})
  /\ \E b \in 1..MaxBatch, l \in 1..MaxLen : tar_input \in TargetBatches(b, l, out_dim)
  /\ dec_w \in 0..MaxSeed
  /\ hidden = EncoderState(dec_w, batch_size)
  /\ outputs = Zeros(batch_size, max_len, out_dim)
  /\ input_ = Column(tar_input, 0)
  /\ t = 1
  /\ drv_pc = "loop"
  /\ log = <<>>
  /\ alt_input = Column(tar_input, 0)
  /\ alt_hidden = hidden
  /\ alt_outputs = outputs
  /\ AttnIdle
  /\ EncIdle

WriteStep(out, step, predication) ==
  [b \in DOMAIN out |-> [j \in DOMAIN out[b] |->
      IF j = WriteIndex(step) THEN predication[b] ELSE out[b][j]]]

\* one iteration of the loop of Seq2Seq.forward
Seq2SeqStep ==
  /\ drv_arch = "seq2seq"
  /\ drv_pc = "loop"
  /\ LoopContinues(t, max_len)
  /\ LET res == DecoderStep(dec_w, input_, hidden, out_dim)
         indices == [b \in Batch |-> Argmax(res.predication[b])]
         next == PlainNextInput(Column(tar_input, t), indices)
         ares == DecoderStep(dec_w, alt_input, alt_hidden, out_dim)
         aindices == [b \in Batch |-> Argmax(ares.predication[b])]
     IN  /\ outputs' = WriteStep(outputs, t, res.predication)
         /\ hidden' = res.hidden
         /\ input_' = next
         /\ log' = Append(log, [t |-> t, at |-> WriteIndex(t), fed |-> input_,
                                predication |-> res.predication, next |-> next])
         /\ alt_outputs' = WriteStep(alt_outputs, t, ares.predication)
         /\ alt_hidden' = ares.hidden
         /\ alt_input' = PlainNextInput(Column(AltTarget(tar_input, out_dim), t), aindices)
  /\ t' = t + 1
  /\ UNCHANGED <<drv_arch, out_dim, teacher_forcing_rate, tar_input, dec_w, drv_pc>>
  /\ UNCHANGED <<attn_vars, enc_vars>>

\* one iteration of the loop of Seq2SeqAttention.forward
Seq2SeqAttentionStep ==
  /\ drv_arch = "attention"
  /\ drv_pc = "loop"
  /\ LoopContinues(t, max_len)
  /\ \E draw \in Draws :
       LET res == DecoderStep(dec_w, input_, hidden, out_dim)
           indices == [b \in Batch |-> Argmax(res.predication[b])]
           next == AttnNextInput(Column(tar_input, t), indices, draw, teacher_forcing_rate)
           ares == DecoderStep(dec_w, alt_input, alt_hidden, out_dim)
           aindices == [b \in Batch |-> Argmax(ares.predication[b])]
       IN  /\ outputs' = WriteStep(outputs, t, res.predication)
           /\ hidden' = res.hidden
           /\ input_' = next
           /\ log' = Append(log, [t |-> t, at |-> WriteIndex(t), fed |-> input_,
                                  predication |-> res.predication,
                                  pick |-> IF TeacherForced(draw, teacher_forcing_rate)
                                           THEN "teacher" ELSE "greedy",
                                  next |-> next])
           /\ alt_outputs' = WriteStep(alt_outputs, t, ares.predication)
           /\ alt_hidden' = ares.hidden
           /\ alt_input' = AttnNextInput(Column(AltTarget(tar_input, out_dim), t), aindices,
                                         draw, teacher_forcing_rate)
  /\ t' = t + 1
  /\ UNCHANGED <<drv_arch, out_dim, teacher_forcing_rate, tar_input, dec_w, drv_pc>>
  /\ UNCHANGED <<attn_vars, enc_vars>>

\* the loop is exhausted: return outputs
DrvReturn ==
  /\ drv_pc = "loop"
  /\ ~LoopContinues(t, max_len)
  /\ drv_pc' = "done"
  /\ UNCHANGED <<drv_arch, out_dim, teacher_forcing_rate, tar_input, dec_w, t, input_,
                 hidden, outputs, log, alt_input, alt_hidden, alt_outputs>>
  /\ UNCHANGED <<attn_vars, enc_vars>>

NextDrv == Seq2SeqStep \/ Seq2SeqAttentionStep \/ DrvReturn

SpecDrv == InitDrv /\ [][NextDrv]_vars

(***************************************************************************)
(* Claims about the decode loops.                                          *)
(***************************************************************************)
ArgmaxOf(predication) == [b \in DOMAIN predication |-> Argmax(predication[b])]

Last(q) == q[Len(q)]

\* C1: with teacher_forcing_rate = 0, at every step and for every random draw, the next
\* decoder input of Seq2SeqAttention.forward is the argmax of the logits just produced,
\* and the ground-truth token is never selected.
C1_RateZeroIsGreedy ==
  (drv_arch = "attention" /\ teacher_forcing_rate = 0) =>
    /\ \A i \in DOMAIN log :
         /\ log[i].pick = "greedy"
         /\ log[i].next = ArgmaxOf(log[i].predication)
    /\ log # <<>> => input_ = ArgmaxOf(Last(log).predication)

C1_Witness ==
  /\ drv_arch = "attention" /\ teacher_forcing_rate = 0 /\ drv_pc = "done"
  /\ Len(log) >= 2
  /\ \E i \in DOMAIN log : \A b \in Batch : log[i].next[b] # tar_input[b][log[i].t]

\* C2: with teacher_forcing_rate = 1.0, at every step and for every random draw, the
\* next decoder input of Seq2SeqAttention.forward is tar_input[:, t], whatever the
\* logits; so the input consumed at step t is tar_input[:, t-1].
C2_RateOneIsTeacherForced ==
  (drv_arch = "attention" /\ teacher_forcing_rate = RandRes) =>
    /\ \A i \in DOMAIN log :
         /\ log[i].pick = "teacher"
         /\ log[i].next = Column(tar_input, log[i].t)
         /\ log[i].fed = Column(tar_input, log[i].t - 1)
    /\ log # <<>> => input_ = Column(tar_input, Last(log).t)

C2_Witness ==
  /\ drv_arch = "attention" /\ teacher_forcing_rate = RandRes /\ drv_pc = "done"
  /\ Len(log) >= 2
  /\ \E i \in DOMAIN log :
       \A b \in Batch : Argmax(log[i].predication[b]) # tar_input[b][log[i].t]

\* C3: for both drivers the output tensor at time index 0 is the zero vector for every
\* batch element: it starts as zero and no step writes it.
C3_IndexZeroStaysZero ==
  drv_pc \in {"loop", "done"} =>
    /\ \A b \in Batch : outputs[b][0] = [k \in Vocab |-> 0]
    /\ \A i \in DOMAIN log : log[i].at # 0

C3_Witness ==
  /\ drv_pc = "done" /\ drv_arch = "seq2seq" /\ max_len = MaxLen /\ batch_size = MaxBatch
  /\ \A b \in Batch : \E k \in Vocab : outputs[b][1][k] # 0

\* C7: Seq2Seq.forward has no stochastic choice: step 1 is fed trg_input[:, 0], every
\* later step the argmax of the previous step's logits; no column of trg_input but
\* column 0 influences a decoder input or the outputs (the run on a target batch that
\* differs in every other column feeds the same inputs and returns the same tensor).
C7_PlainDriverIsGreedy ==
  drv_arch = "seq2seq" =>
    /\ \A i \in DOMAIN log :
         log[i].fed = IF i = 1 THEN Column(tar_input, 0)
                      ELSE ArgmaxOf(log[i - 1].predication)
    /\ log # <<>> => input_ = ArgmaxOf(Last(log).predication)
    /\ alt_input = input_
    /\ alt_hidden = hidden
    /\ alt_outputs = outputs

C7_Witness ==
  /\ drv_arch = "seq2seq" /\ drv_pc = "done" /\ Len(log) >= 2
  /\ \E i \in DOMAIN log : \A b \in Batch : log[i].next[b] # tar_input[b][log[i].t]

\* C10: for both drivers the loop ends after exactly max_len - 1 decoder steps, taken
\* in the order t = 1, 2, ..., max_len - 1; step t writes its logits at time index t,
\* once, and nothing written is overwritten; with max_len = 1 the decoder is never
\* called and the result is all zero; the result has shape batch x max_len x out_dim.
C10_LoopRunsMaxLenMinusOneSteps ==
  drv_pc \in {"loop", "done"} =>
    /\ \A i \in DOMAIN log : log[i].t = i /\ log[i].at = i
    /\ Len(log) = t - 1
    /\ Len(log) <= max_len - 1
    /\ drv_pc = "done" => Len(log) = max_len - 1
    /\ drv_pc = "done" \/ ENABLED NextDrv
    /\ DOMAIN outputs = Batch
    /\ \A b \in Batch :
         /\ DOMAIN outputs[b] = Range(max_len)
         /\ \A j \in Range(max_len) :
              /\ DOMAIN outputs[b][j] = Vocab
              /\ outputs[b][j] = IF j \in DOMAIN log THEN log[j].predication[b]
                                 ELSE [k \in Vocab |-> 0]

C10_Witness ==
  /\ drv_pc = "done" /\ drv_arch = "attention" /\ max_len = MaxLen
  /\ Len(log) = MaxLen - 1
  /\ \A b \in Batch : outputs[b][1] # outputs[b][2]

(***************************************************************************)
(* Attention: construction and scoring.  Scores are kept in thousandths    *)
(* (Milli), weights in millionths (One).                                   *)
(***************************************************************************)
MaxSeq == 2        \* seq_len ranges over 1..MaxSeq
MaxDim == 2        \* rnn_dim ranges over 1..MaxDim
MaxLayer == 2      \* n_layer ranges over 1..MaxLayer

Milli == 10^3
One == 10^6
Tol == One \div 10^5       \* 1e-5

RECURSIVE SumTo(_, _)
\* f[0] + ... + f[n-1]
SumTo(f, n) == IF n = 0 THEN 0 ELSE f[n - 1] + SumTo(f, n - 1)

Abs(x) == IF x < 0 THEN -x ELSE x
Sign(x) == IF x < 0 THEN -1 ELSE 1

\* nn.Linear(n_in, n_out): out[o] = sum_i weight[o][i] * x[i] + bias[o]
NewLinear(seed, n_in, n_out) ==
  [weight |-> [o \in Range(n_out) |-> [i \in Range(n_in) |-> ((o + 2 * i + seed) % 3) - 1]],
   bias |-> [o \in Range(n_out) |-> (o + seed) % 2]]

ApplyLinear(layer, x) ==
  [o \in DOMAIN layer.weight |->
     SumTo([i \in DOMAIN x |-> layer.weight[o][i] * x[i]], Cardinality(DOMAIN x))
       + layer.bias[o]]

\* 1000 * tan(x) and 1000 * tanh(x) for an integer x, rounded
TanTable == <<1557, -2185, -143, 1158, -3381, -291, 871, -6800, -452, 648, -225951, -636>>
TanhTable == <<762, 964, 995, 999>>
TanMilli(x) == IF x = 0 THEN 0 ELSE Sign(x) * TanTable[Abs(x)]
TanhMilli(x) == IF x = 0 THEN 0 ELSE IF Abs(x) > 4 THEN Sign(x) * Milli
                ELSE Sign(x) * TanhTable[Abs(x)]

\* 1000 * exp(-k) for k = 0, 1, ..., rounded; exp underflows to 0 from k = 8 on
ExpTable == <<1000, 368, 135, 50, 18, 7, 2, 1, 0>>
\* 1000 * exp(-d / 1000) for d >= 0, interpolated between the table's entries
ExpNeg(d) ==
  LET k == d \div Milli
      f == d % Milli
  IN  IF k >= 8 THEN 0
      ELSE ExpTable[k + 1] - (((ExpTable[k + 1] - ExpTable[k + 2]) * f) \div Milli)

MaxOf(S) == CHOOSE x \in S : \A y \in S : y <= x

\* tar_input.permute(0, 2, 1) of a batch x 1 x dim tensor: batch x dim x 1
\* x.permute(0, 2, 1) in general
Permute(x) ==
  [b \in DOMAIN x |->
     [j \in DOMAIN x[b][0] |-> [i \in DOMAIN x[b] |-> x[b][i][j]]]]

\* a.bmm(b): batch x n x m times batch x m x p
Bmm(a, c) ==
  [b \in DOMAIN a |-> [i \in DOMAIN a[b] |-> [j \in DOMAIN c[b][0] |->
     SumTo([k \in DOMAIN c[b] |-> a[b][i][k] * c[b][k][j]], Cardinality(DOMAIN c[b]))]]]

\* Attention.dot, in thousandths
dot(src, tar) ==
  LET val == Bmm(src, tar)
  IN  [b \in DOMAIN val |-> [s \in DOMAIN val[b] |-> [j \in DOMAIN val[b][s] |->
         Milli * val[b][s][j]]]]

\* Attention.general, in thousandths
general(layer, src, tar) ==
  LET lin == [b \in DOMAIN src |-> [s \in DOMAIN src[b] |-> ApplyLinear(layer, src[b][s])]]
      val == Bmm(lin, tar)
  IN  [b \in DOMAIN val |-> [s \in DOMAIN val[b] |-> [j \in DOMAIN val[b][s] |->
         Milli * val[b][s][j]]]]

\* tar_input.expand(-1, -1, n) of a batch x dim x 1 tensor
Expand(x, n) == [b \in DOMAIN x |-> [i \in DOMAIN x[b] |-> [j \in Range(n) |-> x[b][i][0]]]]

\* torch.cat((x, y), dim=1)
Cat1(x, y) ==
  [b \in DOMAIN x |->
     LET n == Cardinality(DOMAIN x[b])
     IN  [i \in Range(n + Cardinality(DOMAIN y[b])) |->
            IF i < n THEN x[b][i] ELSE y[b][i - n]]]

\* the elementwise nonlinearities
Activation(act, x) == IF act = "tan" THEN TanMilli(x) ELSE TanhMilli(x)

\* v(act(nn(cat(src, tar)))) for every source position, in thousandths
ConcatScore(act, layer_nn, layer_v, src, tar) ==
  LET srcp == Permute(src)
      tare == Expand(tar, Cardinality(DOMAIN srcp[0][0]))
      cat == Permute(Cat1(srcp, tare))
  IN  [b \in DOMAIN cat |-> [s \in DOMAIN cat[b] |->
         LET lin == ApplyLinear(layer_nn, cat[b][s])
             a == [o \in DOMAIN lin |-> Activation(act, lin[o])]
             w == layer_v.weight[0]
         IN  [j \in {0} |->
                SumTo([o \in DOMAIN a |-> w[o] * a[o]], Cardinality(DOMAIN a))
                  + Milli * layer_v.bias[0]]]]

\* Attention.concat: self.v(torch.tan(self.nn(hidden.permute(0, 2, 1))))
concat(layer_nn, layer_v, src, tar) == ConcatScore("tan", layer_nn, layer_v, src, tar)

\* nn.Softmax(dim=2) / nn.Softmax(dim=-1): normalise along the last axis
Softmax_lastdim(x) ==
  [b \in DOMAIN x |-> [s \in DOMAIN x[b] |-> [j \in DOMAIN x[b][s] |->
     LET top == MaxOf({x[b][s][k] : k \in DOMAIN x[b][s]})
         e == [k \in DOMAIN x[b][s] |-> ExpNeg(top - x[b][s][k])]
     IN  (One * e[j]) \div SumTo(e, Cardinality(DOMAIN x[b][s]))]]]

\* nn.Softmax(dim=1): normalise along the seq_len axis
Softmax(x) ==
  [b \in DOMAIN x |-> [s \in DOMAIN x[b] |-> [j \in DOMAIN x[b][s] |->
     LET top == MaxOf({x[b][r][j] : r \in DOMAIN x[b]})
         e == [r \in DOMAIN x[b] |-> ExpNeg(top - x[b][r][j])]
     IN  (One * e[s]) \div SumTo(e, Cardinality(DOMAIN x[b]))]]]

\* if self.method not in ['dot', 'general', 'concat']: raise NotImplementedError
ValidMethod_any(m) == TRUE
ValidMethod(m) == m \in {"dot", "general", "concat"}

Methods == {"dot", "general", "concat", "bahdanau", "Dot", ""}

\* Attention.__init__(method, rnn_dim)
AttentionInit ==
  /\ attn_pc = "new"
  /\ \E m \in Methods, d \in 1..MaxDim, seed \in 0..MaxSeed :
       /\ method' = m
       /\ rnn_dim' = d
       /\ IF ~ValidMethod(m)
          THEN /\ attn_pc' = "ctor_raised"
               /\ self_nn' = None /\ self_v' = None
          ELSE /\ attn_pc' = "constructed"
               /\ self_nn' = IF m = "general" THEN NewLinear(seed, d, d)
                             ELSE IF m = "concat" THEN NewLinear(seed, 2 * d, d)
                             ELSE None
               /\ self_v' = IF m = "concat" THEN NewLinear(seed + 1, d, 1) ELSE None
  /\ UNCHANGED <<src_inputs, src_length, dec_output, dispatched, attention_value,
                 attention_distribution>>
  /\ UNCHANGED <<drv_vars, enc_vars>>

\* encoder outputs: the first row is free and of full length, row b is the first row
\* negated b times and of length seq_len - b (at least 1), zero in its padding
SourceBatches(b, s, d) ==
  { [i \in Range(b) |-> [j \in Range(s) |-> [k \in Range(d) |->
       IF j >= MaxOf({1, s - i}) THEN 0
       ELSE IF i % 2 = 0 THEN row[j][k] ELSE -row[j][k]]]]
    : row \in [Range(s) -> [Range(d) -> {-1, 1}]] }

\* decoder outputs: the first row is free, the other rows are its cyclic shifts
StateBatches(b, d) ==
  { [i \in Range(b) |-> [j \in {0} |-> [k \in Range(d) |-> row[(k + i) % d]]]]
    : row \in [Range(d) -> {-1, 1}] }

\* Attention.forward(src_inputs, tar_input)
AttentionForward ==
  /\ attn_pc = "constructed"
  /\ \E b \in 1..MaxBatch, s \in 1..MaxSeq :
     \E src \in SourceBatches(b, s, rnn_dim), dec \in StateBatches(b, rnn_dim) :
       LET tar == Permute(dec)
           called == IF method \in {"dot", "general", "concat"} THEN <<method>> ELSE <<>>
           val == IF method = "dot" THEN dot(src, tar)
                  ELSE IF method = "general" THEN general(self_nn, src, tar)
                  ELSE IF method = "concat" THEN concat(self_nn, self_v, src, tar)
                  ELSE None
       IN  /\ src_inputs' = src
           /\ src_length' = [i \in Range(b) |-> MaxOf({1, s - i})]
           /\ dec_output' = dec
           /\ dispatched' = called
           /\ attention_value' = val
           /\ IF called = <<>>
              THEN /\ attn_pc' = "call_raised"
                   /\ attention_distribution' = None
              ELSE /\ attn_pc' = "forwarded"
                   /\ attention_distribution' = Softmax(val)
  /\ UNCHANGED <<method, rnn_dim, self_nn, self_v>>
  /\ UNCHANGED <<drv_vars, enc_vars>>

InitAttn ==
  /\ attn_pc = "new"
  /\ method = "" /\ rnn_dim = 0 /\ self_nn = None /\ self_v = None
  /\ src_inputs = None /\ src_length = None /\ dec_output = None
  /\ dispatched = <<>> /\ attention_value = None /\ attention_distribution = None
  /\ DrvIdle
  /\ EncIdle

NextAttn == AttentionInit \/ AttentionForward

SpecAttn == InitAttn /\ [][NextAttn]_vars

(***************************************************************************)
(* Claims about Attention.                                                 *)
(***************************************************************************)
SeqLen == Cardinality(DOMAIN src_inputs[0])

\* C4: a method other than dot, general or concat makes the constructor raise, before
\* any scoring parameter is created and never at call time; an Attention object that
\* exists has one of the three methods, and forward calls exactly one scoring
\* sub-algorithm and never leaves attention_value as None.
C4_InvalidMethodRaisesInConstructor ==
  /\ attn_pc # "new" =>
       (attn_pc = "ctor_raised" <=> method \notin {"dot", "general", "concat"})
  /\ attn_pc = "ctor_raised" =>
       IsNone(self_nn) /\ IsNone(self_v) /\ dispatched = <<>> /\ IsNone(attention_value)
  /\ attn_pc # "call_raised"
  /\ attn_pc = "forwarded" =>
       /\ dispatched = <<method>>
       /\ method \in {"dot", "general", "concat"}
       /\ ~IsNone(attention_value)

C4_Witness == attn_pc = "ctor_raised" /\ method = "bahdanau" /\ rnn_dim = MaxDim

\* C6: for each of the three methods forward returns weights of shape
\* batch x seq_len x 1 that are non-negative and sum to 1 (within 1e-5) along seq_len
\* for every batch element; every position takes part, padding included, so two
\* positions with the same score get the same weight.
C6_WeightsSumToOne ==
  attn_pc = "forwarded" =>
    LET w == attention_distribution
    IN  /\ DOMAIN w = DOMAIN src_inputs
        /\ \A b \in DOMAIN w :
             /\ DOMAIN w[b] = DOMAIN src_inputs[b]
             /\ \A s \in DOMAIN w[b] : DOMAIN w[b][s] = {0} /\ w[b][s][0] >= 0
             /\ Abs(SumTo([s \in DOMAIN w[b] |-> w[b][s][0]], SeqLen) - One) <= Tol
             /\ \A r, s \in DOMAIN w[b] :
                  attention_value[b][r][0] = attention_value[b][s][0]
                    => w[b][r][0] = w[b][s][0]

C6_Witness ==
  /\ attn_pc = "forwarded"
  /\ method = "general"
  /\ \E b \in DOMAIN src_inputs :
       /\ src_length[b] < SeqLen
       /\ attention_distribution[b][SeqLen - 1][0] > 0
       /\ attention_distribution[b][0][0] # attention_distribution[b][SeqLen - 1][0]

\* C9: the concat sub-algorithm computes v(tanh(W[hs; ht])) for every source position.
C9_ConcatIsTanh ==
  (attn_pc = "forwarded" /\ method = "concat") =>
    attention_value = ConcatScore("tanh", self_nn, self_v, src_inputs, Permute(dec_output))

(***************************************************************************)
(* EncoderRNN.forward.  The recurrence is abstracted: its results are a    *)
(* deterministic function of the learned parameters and of the position of *)
(* the entry, different for every layer and direction.                     *)
(***************************************************************************)
\* nn.utils.rnn.pack_padded_sequence(embedded, length, batch_first=True), with
\* enforce_sorted left at True: raises unless length is in decreasing order
SortedDescending(len) ==
  \A i, j \in DOMAIN len : i < j => len[i] >= len[j]

PackRaises_never(len) == FALSE
PackRaises(len) == ~SortedDescending(len)

Directions(arch) == IF arch = "attention" THEN 2 ELSE 1

\* h_n / c_n of nn.LSTM: (n_layer * num_directions) x batch x rnn_dim, the row of
\* layer l and direction d being l * num_directions + d
LstmFinal(w, kind, rows, b, d) ==
  [r \in Range(rows) |-> [i \in Range(b) |-> [k \in Range(d) |->
     (w + 1) * (r + 1) * (r + 2) + 3 * i + 5 * k + kind]]]

\* the padded output of nn.LSTM after pad_packed_sequence:
\* batch x max(length) x (num_directions * rnn_dim), zero beyond each row's length
LstmOutputs(w, len, width) ==
  [i \in DOMAIN len |-> [s \in Range(MaxOf({len[j] : j \in DOMAIN len})) |->
     [c \in Range(width) |-> IF s >= len[i] THEN 0 ELSE (w + 1) * (c + 1) + s + i]]]

\* x[lo:hi] along the first axis
Slice(x, lo, hi) == [i \in Range(hi - lo) |-> x[lo + i]]

Rows(x) == Cardinality(DOMAIN x)

\* x + y for tensors whose shapes agree except that the first axis of one may be 1
BroadcastAdd(x, y) ==
  [r \in Range(MaxOf({Rows(x), Rows(y)})) |->
     LET xr == IF Rows(x) = 1 THEN x[0] ELSE x[r]
         yr == IF Rows(y) = 1 THEN y[0] ELSE y[r]
     IN  [i \in DOMAIN xr |-> [k \in DOMAIN xr[i] |-> xr[i][k] + yr[i][k]]]]

\* hidden[:1] + hidden[1:]
MergeDirections(x) == BroadcastAdd(Slice(x, 0, 1), Slice(x, 1, Rows(x)))

\* outputs[:, :, :self.rnn_dim] + outputs[:, :, self.rnn_dim:]
MergeOutputs(x, d) ==
  [i \in DOMAIN x |-> [s \in DOMAIN x[i] |-> [k \in Range(d) |-> x[i][s][k] + x[i][s][d + k]]]]

Lengths(b, s) == [Range(b) -> 1..s]

InitEnc ==
  /\ enc_pc = "start"
  /\ enc_arch \in {"seq2seq", "attention"}
  /\ n_layer \in 1..MaxLayer
  /\ enc_dim \in 1..MaxDim
  /\ enc_w \in 0..MaxSeed
  /\ \E b \in 1..MaxBatch : length \in Lengths(b, MaxSeq)
  /\ enc_rnn = None
  /\ enc_ret = None
  /\ DrvIdle
  /\ AttnIdle

\* embedded = self.embedding(inputs) [; embedded = self.batch_norm(embedded)]
EncoderEmbed ==
  /\ enc_pc = "start"
  /\ enc_pc' = "embedded"
  /\ UNCHANGED <<enc_arch, n_layer, enc_dim, enc_w, length, enc_rnn, enc_ret>>
  /\ UNCHANGED <<drv_vars, attn_vars>>

\* packed = nn.utils.rnn.pack_padded_sequence(embedded, length, batch_first=True)
EncoderPack ==
  /\ enc_pc = "embedded"
  /\ enc_pc' = IF PackRaises(length) THEN "raised" ELSE "packed"
  /\ UNCHANGED <<enc_arch, n_layer, enc_dim, enc_w, length, enc_rnn, enc_ret>>
  /\ UNCHANGED <<drv_vars, attn_vars>>

\* outputs, (hidden, cell) = self.rnn(packed)
EncoderRnn ==
  /\ enc_pc = "packed"
  /\ enc_pc' = "rnn_done"
  /\ LET dirs == Directions(enc_arch)
         b == Rows(length)
     IN  enc_rnn' = [outputs |-> LstmOutputs(enc_w, length, dirs * enc_dim),
                     hidden |-> LstmFinal(enc_w, 0, n_layer * dirs, b, enc_dim),
                     cell |-> LstmFinal(enc_w, 1, n_layer * dirs, b, enc_dim)]
  /\ UNCHANGED <<enc_arch, n_layer, enc_dim, enc_w, length, enc_ret>>
  /\ UNCHANGED <<drv_vars, attn_vars>>

\* pad_packed_sequence, the merge of the two directions (attention) and the return
EncoderReturn ==
  /\ enc_pc = "rnn_done"
  /\ enc_pc' = "returned"
  /\ enc_ret' = IF enc_arch = "attention"
                THEN [outputs |-> MergeOutputs(enc_rnn.outputs, enc_dim),
                      hidden |-> MergeDirections(enc_rnn.hidden),
                      cell |-> MergeDirections(enc_rnn.cell)]
                ELSE [hidden |-> enc_rnn.hidden, cell |-> enc_rnn.cell]
  /\ UNCHANGED <<enc_arch, n_layer, enc_dim, enc_w, length, enc_rnn>>
  /\ UNCHANGED <<drv_vars, attn_vars>>

NextEnc == EncoderEmbed \/ EncoderPack \/ EncoderRnn \/ EncoderReturn

SpecEnc == InitEnc /\ [][NextEnc]_vars

(***************************************************************************)
(* Claims about EncoderRNN.forward.                                        *)
(***************************************************************************)
\* C5: given a length vector that is not sorted in descending order, forward of either
\* encoder raises before the recurrence runs and returns nothing.
C5_UnsortedLengthRaisesBeforeRnn ==
  ~SortedDescending(length) =>
    /\ enc_pc \in {"start", "embedded", "raised"}
    /\ IsNone(enc_rnn)
    /\ IsNone(enc_ret)

C5_Witness ==
  /\ enc_pc = "raised"
  /\ enc_arch = "attention"
  /\ Rows(length) = 2 /\ length[0] < length[1]

\* C8: for every n_layer >= 1 the attention encoder returns hidden and cell of shape
\* n_layer x batch x rnn_dim, the entry of layer l being the elementwise sum of the
\* final states of the forward and of the backward direction of layer l.
C8_PerLayerSumOfDirections ==
  (enc_pc = "returned" /\ enc_arch = "attention") =>
    \A kind \in {"hidden", "cell"} :
      /\ DOMAIN enc_ret[kind] = Range(n_layer)
      /\ \A l \in Range(n_layer) :
           /\ DOMAIN enc_ret[kind][l] = Range(Rows(length))
           /\ \A i \in Range(Rows(length)) :
                /\ DOMAIN enc_ret[kind][l][i] = Range(enc_dim)
                /\ \A k \in Range(enc_dim) :
                     enc_ret[kind][l][i][k] =
                       enc_rnn[kind][2 * l][i][k] + enc_rnn[kind][2 * l + 1][i][k]

====
